---- MODULE Spec2Model ----
(***************************************************************************)
(* A model of envprofile: the profile store of core.py (ProfileManager     *)
(* over one JSON file), the command handlers of cli.py, and the            *)
(* standalone script envprofile.py.  Spec runs the commands one after      *)
(* another, SpecScript does so with the script, SpecRace runs two          *)
(* invocations step by step at the same time, SpecQuote loads one value.   *)
(*                                                                         *)
(* Strings are sequences of one-character strings.  A Python dict is a     *)
(* sequence of entries [k, v] without repeated keys, in insertion order.   *)
(* The store file holds a JSON document whose string literals are kept     *)
(* as written by json.dump (quoted, with " and \ escaped); text printed by *)
(* a command is a sequence of lines, a fixed piece of a message being one  *)
(* element of its line and every character of an argument one element.     *)
(***************************************************************************)
EXTENDS Naturals, Sequences, FiniteSets

VARIABLES
    dir_exists,   \* whether config_dir exists
    file,         \* the content of config_file (profiles.json)
    last,         \* the last invocation: command, arguments, outcome
    inflight      \* the invocations that run at the same time, step by step

vars == <<dir_exists, file, last, inflight>>

----------------------------------------------------------------------------
(* The arguments the commands are run with.                                *)

NameDev == <<"d">>
NameProd == <<"p">>
Names == {NameDev, NameProd}

KeyPlain == <<"K">>
KeySemi == <<"A", ";", "r", ";", "B">>
Keys == {KeyPlain, KeySemi}

ValuePlain == <<"v">>
ValueQuote == <<"'", ";", "r", ";", "'", "\\", "\"">>
Values == {ValuePlain, ValueQuote}

NoArg == <<>>

----------------------------------------------------------------------------
(* Python dict: insertion-ordered, one entry per key.                      *)

dict_has(d, k) == \E i \in 1..Len(d) : d[i].k = k

dict_index(d, k) == CHOOSE i \in 1..Len(d) : d[i].k = k

dict_getitem(d, k) == d[dict_index(d, k)].v

dict_setitem(d, k, v) ==
    IF dict_has(d, k)
    THEN [d EXCEPT ![dict_index(d, k)] = [k |-> k, v |-> v]]
    ELSE Append(d, [k |-> k, v |-> v])

(* Mutant: the entries after the deleted one go with it.                   *)
dict_delitem_truncates(d, k) ==
    LET i == dict_index(d, k)
    IN  SubSeq(d, 1, i - 1)

dict_delitem(d, k) ==
    LET i == dict_index(d, k)
    IN  SubSeq(d, 1, i - 1) \o SubSeq(d, i + 1, Len(d))

dict_keys(d) == {d[i].k : i \in 1..Len(d)}

----------------------------------------------------------------------------
(* json.dump / json.load on a store: an object of objects of strings.      *)

RECURSIVE json_encode_chars(_)
json_encode_chars(s) ==
    IF s = <<>> THEN <<>>
    ELSE LET c == Head(s)
         IN  (IF c = "\"" \/ c = "\\" THEN <<"\\", c>> ELSE <<c>>)
             \o json_encode_chars(Tail(s))

(* Mutant: the literal is written without escaping " and \.                *)
json_encode_string_unescaped(s) == <<"\"">> \o s \o <<"\"">>

json_encode_string(s) == <<"\"">> \o json_encode_chars(s) \o <<"\"">>

RECURSIVE json_decode_chars(_)
json_decode_chars(s) ==
    IF s = <<>> THEN <<>>
    ELSE IF Head(s) = "\\" /\ Len(s) >= 2
         THEN <<s[2]>> \o json_decode_chars(Tail(Tail(s)))
         ELSE <<Head(s)>> \o json_decode_chars(Tail(s))

(* Mutant: the text between the quotes is taken as it stands.              *)
json_decode_string_raw(lit) == SubSeq(lit, 2, Len(lit) - 1)

json_decode_string(lit) == json_decode_chars(SubSeq(lit, 2, Len(lit) - 1))

json_dump_object(d) ==
    [i \in 1..Len(d) |->
        [k |-> json_encode_string(d[i].k), v |-> json_encode_string(d[i].v)]]

json_dump(profiles) ==
    [kind |-> "object",
     members |-> [i \in 1..Len(profiles) |->
                    [k |-> json_encode_string(profiles[i].k),
                     v |-> json_dump_object(profiles[i].v)]]]

RECURSIVE json_load_object(_, _)
json_load_object(members, acc) ==
    IF members = <<>> THEN acc
    ELSE json_load_object(Tail(members),
            dict_setitem(acc, json_decode_string(Head(members).k),
                              json_decode_string(Head(members).v)))

RECURSIVE json_load_members(_, _)
json_load_members(members, acc) ==
    IF members = <<>> THEN acc
    ELSE json_load_members(Tail(members),
            dict_setitem(acc, json_decode_string(Head(members).k),
                              json_load_object(Head(members).v, <<>>)))

json_load(content) == json_load_members(content.members, <<>>)

----------------------------------------------------------------------------
(* The file system: [dir, file].  A file content is a JSON object written  *)
(* by json.dump, text that is not JSON (JSONDecodeError), bytes that are   *)
(* not text in the locale's encoding (UnicodeDecodeError), or no file.     *)

NoFile == [kind |-> "missing", members |-> <<>>]
MalformedText == [kind |-> "malformed", members |-> <<>>]
UndecodableBytes == [kind |-> "undecodable", members |-> <<>>]

(* Path.mkdir(parents=True), without exist_ok: FileExistsError when the    *)
(* directory is there.                                                     *)
mkdir(fs) ==
    IF fs.dir THEN [fs |-> fs, raised |-> TRUE]
    ELSE [fs |-> [fs EXCEPT !.dir = TRUE], raised |-> FALSE]

(* Whether mkdir raises inside ensure_config_exists.                       *)
ensure_config_exists_raised(fs) == IF ~fs.dir THEN mkdir(fs).raised ELSE FALSE

(* Mutant: the file is written without asking whether it is there.         *)
ensure_config_exists_rewrites(fs) ==
    LET made == IF ~fs.dir THEN mkdir(fs).fs ELSE fs
    IN  [made EXCEPT !.file = json_dump(<<>>)]

ensure_config_exists(fs) ==
    LET made == IF ~fs.dir THEN mkdir(fs).fs ELSE fs
    IN  IF made.file.kind = "missing"
        THEN [made EXCEPT !.file = json_dump(<<>>)]
        ELSE made

(* [fs, raised, profiles]: json.load's JSONDecodeError is caught, the      *)
(* UnicodeDecodeError of f.read() is not.                                  *)
load_profiles(fs) ==
    LET e == ensure_config_exists(fs)
    IN  CASE e.file.kind = "object" ->
                [fs |-> e, raised |-> FALSE, profiles |-> json_load(e.file)]
          [] e.file.kind = "malformed" ->
                [fs |-> e, raised |-> FALSE, profiles |-> <<>>]
          [] OTHER ->
                [fs |-> e, raised |-> TRUE, profiles |-> <<>>]

save_profiles(fs, profiles) ==
    [ensure_config_exists(fs) EXCEPT !.file = json_dump(profiles)]

----------------------------------------------------------------------------
(* ProfileManager's operations.  Each returns the file system it leaves,   *)
(* whether it ended in an uncaught exception, whether save_profiles ran,   *)
(* and its return value.                                                   *)

None == [none |-> TRUE, vars |-> <<>>]
Some(variables) == [none |-> FALSE, vars |-> variables]

Returned(fs, ret, saved) ==
    [fs |-> fs, raised |-> FALSE, ret |-> ret, saved |-> saved]

Propagated(fs) == [fs |-> fs, raised |-> TRUE, ret |-> FALSE, saved |-> FALSE]

(* Mutant: no test for an existing profile.                                *)
create_profile_overwrites(fs, profile_name) ==
    LET l == load_profiles(fs)
    IN  IF l.raised THEN Propagated(l.fs)
        ELSE Returned(save_profiles(l.fs,
                          dict_setitem(l.profiles, profile_name, <<>>)),
                      TRUE, TRUE)

create_profile(fs, profile_name) ==
    LET l == load_profiles(fs)
    IN  IF l.raised THEN Propagated(l.fs)
        ELSE IF dict_has(l.profiles, profile_name)
        THEN Returned(l.fs, FALSE, FALSE)
        ELSE Returned(save_profiles(l.fs,
                          dict_setitem(l.profiles, profile_name, <<>>)),
                      TRUE, TRUE)

(* Mutant: the store is written back before the missing profile is        *)
(* reported.                                                               *)
add_variable_saves_anyway(fs, profile_name, key, value) ==
    LET l == load_profiles(fs)
    IN  IF l.raised THEN Propagated(l.fs)
        ELSE IF ~dict_has(l.profiles, profile_name)
        THEN Returned(save_profiles(l.fs, l.profiles), FALSE, TRUE)
        ELSE Returned(save_profiles(l.fs,
                          dict_setitem(l.profiles, profile_name,
                              dict_setitem(dict_getitem(l.profiles, profile_name),
                                           key, value))),
                      TRUE, TRUE)

add_variable(fs, profile_name, key, value) ==
    LET l == load_profiles(fs)
    IN  IF l.raised THEN Propagated(l.fs)
        ELSE IF ~dict_has(l.profiles, profile_name)
        THEN Returned(l.fs, FALSE, FALSE)
        ELSE Returned(save_profiles(l.fs,
                          dict_setitem(l.profiles, profile_name,
                              dict_setitem(dict_getitem(l.profiles, profile_name),
                                           key, value))),
                      TRUE, TRUE)

(* Mutant: a profile left without variables is dropped from the store.     *)
remove_variable_drops_empty(fs, profile_name, key) ==
    LET l == load_profiles(fs)
        left == dict_delitem(dict_getitem(l.profiles, profile_name), key)
    IN  IF l.raised THEN Propagated(l.fs)
        ELSE IF ~dict_has(l.profiles, profile_name)
        THEN Returned(l.fs, FALSE, FALSE)
        ELSE IF ~dict_has(dict_getitem(l.profiles, profile_name), key)
        THEN Returned(l.fs, FALSE, FALSE)
        ELSE Returned(save_profiles(l.fs,
                          IF left = <<>>
                          THEN dict_delitem(l.profiles, profile_name)
                          ELSE dict_setitem(l.profiles, profile_name, left)),
                      TRUE, TRUE)

remove_variable(fs, profile_name, key) ==
    LET l == load_profiles(fs)
    IN  IF l.raised THEN Propagated(l.fs)
        ELSE IF ~dict_has(l.profiles, profile_name)
        THEN Returned(l.fs, FALSE, FALSE)
        ELSE IF ~dict_has(dict_getitem(l.profiles, profile_name), key)
        THEN Returned(l.fs, FALSE, FALSE)
        ELSE Returned(save_profiles(l.fs,
                          dict_setitem(l.profiles, profile_name,
                              dict_delitem(dict_getitem(l.profiles, profile_name),
                                           key))),
                      TRUE, TRUE)

(* Mutant: an empty mapping is reported as not found (a truthiness test).  *)
get_profile_falsy(fs, profile_name) ==
    LET l == load_profiles(fs)
    IN  [fs |-> l.fs, raised |-> l.raised,
         got |-> IF /\ ~l.raised /\ dict_has(l.profiles, profile_name)
                    /\ dict_getitem(l.profiles, profile_name) # <<>>
                 THEN Some(dict_getitem(l.profiles, profile_name))
                 ELSE None]

get_profile(fs, profile_name) ==
    LET l == load_profiles(fs)
    IN  [fs |-> l.fs, raised |-> l.raised,
         got |-> IF ~l.raised /\ dict_has(l.profiles, profile_name)
                 THEN Some(dict_getitem(l.profiles, profile_name))
                 ELSE None]

(* Mutant: profiles without variables are left out.                        *)
list_profiles_skips_empty(fs) ==
    LET l == load_profiles(fs)
        has_vars(e) == e.v # <<>>
        kept == SelectSeq(l.profiles, has_vars)
    IN  [fs |-> l.fs, raised |-> l.raised,
         counts |-> [i \in 1..Len(kept) |->
                        [k |-> kept[i].k, v |-> Len(kept[i].v)]]]

list_profiles(fs) ==
    LET l == load_profiles(fs)
    IN  [fs |-> l.fs, raised |-> l.raised,
         counts |-> [i \in 1..Len(l.profiles) |->
                        [k |-> l.profiles[i].k, v |-> Len(l.profiles[i].v)]]]

(* Mutant: the profile is emptied, its name stays in the store.            *)
delete_profile_clears(fs, profile_name) ==
    LET l == load_profiles(fs)
    IN  IF l.raised THEN Propagated(l.fs)
        ELSE IF ~dict_has(l.profiles, profile_name)
        THEN Returned(l.fs, FALSE, FALSE)
        ELSE Returned(save_profiles(l.fs,
                          dict_setitem(l.profiles, profile_name, <<>>)),
                      TRUE, TRUE)

delete_profile(fs, profile_name) ==
    LET l == load_profiles(fs)
    IN  IF l.raised THEN Propagated(l.fs)
        ELSE IF ~dict_has(l.profiles, profile_name)
        THEN Returned(l.fs, FALSE, FALSE)
        ELSE Returned(save_profiles(l.fs, dict_delitem(l.profiles, profile_name)),
                      TRUE, TRUE)

----------------------------------------------------------------------------
(* The command handlers of cli.py.  An outcome is what an invocation       *)
(* leaves: the file system, the store call's result, the lines printed on  *)
(* stdout and stderr, and the exit code.                                   *)

Digit == <<"0", "1", "2", "3", "4", "5", "6", "7", "8", "9">>

RECURSIVE str(_)
str(n) ==
    IF n < 10 THEN <<Digit[n + 1]>>
    ELSE str(n \div 10) \o <<Digit[(n % 10) + 1]>>

Outcome(fs, ret, saved, stdout, stderr, code) ==
    [fs |-> fs, raised |-> FALSE, ret |-> ret, saved |-> saved, got |-> None,
     counts |-> <<>>, stdout |-> stdout, stderr |-> stderr, code |-> code]

(* An uncaught exception: the interpreter prints the traceback on stderr   *)
(* and exits with status 1.                                                *)
Uncaught(fs) ==
    [fs |-> fs, raised |-> TRUE, ret |-> FALSE, saved |-> FALSE, got |-> None,
     counts |-> <<>>, stdout |-> <<>>, stderr |-> << <<"Traceback">> >>,
     code |-> 1]

create_profile_cmd(fs, profile_name) ==
    LET r == create_profile(fs, profile_name)
    IN  IF r.raised THEN Uncaught(r.fs)
        ELSE IF r.ret
        THEN Outcome(r.fs, TRUE, r.saved,
                 << <<"Created profile '">> \o profile_name \o <<"'">> >>,
                 <<>>, 0)
        ELSE Outcome(r.fs, FALSE, r.saved,
                 << <<"Profile '">> \o profile_name \o <<"' already exists">> >>,
                 <<>>, 1)

add_variable_cmd(fs, profile_name, key, value) ==
    LET r == add_variable(fs, profile_name, key, value)
    IN  IF r.raised THEN Uncaught(r.fs)
        ELSE IF r.ret
        THEN Outcome(r.fs, TRUE, r.saved,
                 << <<"Added/updated '">> \o key \o <<"=">> \o value
                    \o <<"' to profile '">> \o profile_name \o <<"'">> >>,
                 <<>>, 0)
        ELSE Outcome(r.fs, FALSE, r.saved,
                 << <<"Profile '">> \o profile_name \o <<"' does not exist">> >>,
                 <<>>, 1)

remove_variable_cmd(fs, profile_name, key) ==
    LET r == remove_variable(fs, profile_name, key)
        l == load_profiles(r.fs)
    IN  IF r.raised THEN Uncaught(r.fs)
        ELSE IF ~r.ret
        THEN IF l.raised THEN Uncaught(l.fs)
             ELSE IF ~dict_has(l.profiles, profile_name)
             THEN Outcome(l.fs, FALSE, r.saved,
                      << <<"Profile '">> \o profile_name
                         \o <<"' does not exist">> >>,
                      <<>>, 1)
             ELSE Outcome(l.fs, FALSE, r.saved,
                      << <<"Key '">> \o key \o <<"' does not exist in profile '">>
                         \o profile_name \o <<"'">> >>,
                      <<>>, 1)
        ELSE Outcome(r.fs, TRUE, r.saved,
                 << <<"Removed '">> \o key \o <<"' from profile '">>
                    \o profile_name \o <<"'">> >>,
                 <<>>, 0)

list_profiles_cmd(fs) ==
    LET r == list_profiles(fs)
        line(e) == <<"  - ">> \o e.k \o <<" (">> \o str(e.v) \o <<" variable">>
                   \o (IF e.v # 1 THEN <<"s">> ELSE <<>>) \o <<")">>
    IN  IF r.raised THEN Uncaught(r.fs)
        ELSE [Outcome(r.fs, FALSE, FALSE,
                  IF r.counts = <<>>
                  THEN << <<"No profiles available">> >>
                  ELSE << <<"Available profiles:">> >>
                       \o [i \in 1..Len(r.counts) |-> line(r.counts[i])],
                  <<>>, 0)
              EXCEPT !.counts = r.counts]

show_profile_cmd(fs, profile_name) ==
    LET r == get_profile(fs, profile_name)
        profile == r.got.vars
    IN  IF r.raised THEN Uncaught(r.fs)
        ELSE [(IF r.got.none
               THEN Outcome(r.fs, FALSE, FALSE,
                        << <<"Profile '">> \o profile_name
                           \o <<"' does not exist">> >>,
                        <<>>, 1)
               ELSE IF profile = <<>>
               THEN Outcome(r.fs, FALSE, FALSE,
                        << <<"Profile '">> \o profile_name \o <<"' is empty">> >>,
                        <<>>, 0)
               ELSE Outcome(r.fs, FALSE, FALSE,
                        << <<"Profile: ">> \o profile_name,
                           <<"Environment variables:">> >>
                        \o [i \in 1..Len(profile) |->
                              <<"  ">> \o profile[i].k \o <<"=">> \o profile[i].v],
                        <<>>, 0))
              EXCEPT !.got = r.got]

(* Mutant: value.replace("'", "\\'"), a backslash before each quote.       *)
RECURSIVE escape_value_backslash(_)
escape_value_backslash(value) ==
    IF value = <<>> THEN <<>>
    ELSE (IF Head(value) = "'" THEN <<"\\", "'">> ELSE <<Head(value)>>)
         \o escape_value_backslash(Tail(value))

(* value.replace("'", "'\\''") *)
RECURSIVE escape_value(_)
escape_value(value) ==
    IF value = <<>> THEN <<>>
    ELSE (IF Head(value) = "'" THEN <<"'", "\\", "'", "'">> ELSE <<Head(value)>>)
         \o escape_value(Tail(value))

export_line(key, value) ==
    <<"e", "x", "p", "o", "r", "t", " ">> \o key \o <<"=", "'">>
    \o escape_value(value) \o <<"'", ";">>

(* Mutant: the diagnostics of load go to stdout, as those of show do.       *)
load_profile_cmd_prints(fs, profile_name) ==
    LET r == get_profile(fs, profile_name)
        profile == r.got.vars
    IN  IF r.raised THEN Uncaught(r.fs)
        ELSE [(IF r.got.none
               THEN Outcome(r.fs, FALSE, FALSE,
                        << <<"# Profile '">> \o profile_name
                           \o <<"' does not exist">> >>,
                        <<>>, 1)
               ELSE IF profile = <<>>
               THEN Outcome(r.fs, FALSE, FALSE,
                        << <<"# Profile '">> \o profile_name \o <<"' is empty">> >>,
                        <<>>, 0)
               ELSE Outcome(r.fs, FALSE, FALSE,
                        [i \in 1..Len(profile) |->
                            export_line(profile[i].k, profile[i].v)],
                        <<>>, 0))
              EXCEPT !.got = r.got]

load_profile_cmd(fs, profile_name) ==
    LET r == get_profile(fs, profile_name)
        profile == r.got.vars
    IN  IF r.raised THEN Uncaught(r.fs)
        ELSE [(IF r.got.none
               THEN Outcome(r.fs, FALSE, FALSE, <<>>,
                        << <<"# Profile '">> \o profile_name
                           \o <<"' does not exist">> >>,
                        1)
               ELSE IF profile = <<>>
               THEN Outcome(r.fs, FALSE, FALSE, <<>>,
                        << <<"# Profile '">> \o profile_name \o <<"' is empty">> >>,
                        0)
               ELSE Outcome(r.fs, FALSE, FALSE,
                        [i \in 1..Len(profile) |->
                            export_line(profile[i].k, profile[i].v)],
                        <<>>, 0))
              EXCEPT !.got = r.got]

(* Mutant: the handler returns 0 on both paths.                            *)
delete_profile_cmd_returns_0(fs, profile_name) ==
    LET r == delete_profile(fs, profile_name)
    IN  IF r.raised THEN Uncaught(r.fs)
        ELSE IF r.ret
        THEN Outcome(r.fs, TRUE, r.saved,
                 << <<"Deleted profile '">> \o profile_name \o <<"'">> >>,
                 <<>>, 0)
        ELSE Outcome(r.fs, FALSE, r.saved,
                 << <<"Profile '">> \o profile_name \o <<"' does not exist">> >>,
                 <<>>, 0)

delete_profile_cmd(fs, profile_name) ==
    LET r == delete_profile(fs, profile_name)
    IN  IF r.raised THEN Uncaught(r.fs)
        ELSE IF r.ret
        THEN Outcome(r.fs, TRUE, r.saved,
                 << <<"Deleted profile '">> \o profile_name \o <<"'">> >>,
                 <<>>, 0)
        ELSE Outcome(r.fs, FALSE, r.saved,
                 << <<"Profile '">> \o profile_name \o <<"' does not exist">> >>,
                 <<>>, 1)

(* ProfileManager(): the constructor runs ensure_config_exists.            *)
ProfileManager(fs) == ensure_config_exists(fs)

(* main: builds the manager, then runs the command's handler.  The        *)
(* actions below apply the same two steps for their own command.           *)
main(fs, command, profile_name, key, value) ==
    LET manager == ProfileManager(fs)
    IN  CASE command = "create" -> create_profile_cmd(manager, profile_name)
          [] command = "add" -> add_variable_cmd(manager, profile_name, key, value)
          [] command = "remove" -> remove_variable_cmd(manager, profile_name, key)
          [] command = "list" -> list_profiles_cmd(manager)
          [] command = "show" -> show_profile_cmd(manager, profile_name)
          [] command = "load" -> load_profile_cmd(manager, profile_name)
          [] command = "delete" -> delete_profile_cmd(manager, profile_name)

----------------------------------------------------------------------------
(* The standalone script envprofile.py: module-level functions on the same *)
(* file, one handler per command.  A handler returns nothing and main's    *)
(* result is not handed to sys.exit, so a run that raises nothing ends     *)
(* with status 0.                                                          *)

script_ensure_config_exists(fs) ==
    LET made == IF ~fs.dir THEN mkdir(fs).fs ELSE fs
    IN  IF made.file.kind = "missing"
        THEN [made EXCEPT !.file = json_dump(<<>>)]
        ELSE made

script_load_profiles(fs) ==
    LET e == script_ensure_config_exists(fs)
    IN  CASE e.file.kind = "object" ->
                [fs |-> e, raised |-> FALSE, profiles |-> json_load(e.file)]
          [] e.file.kind = "malformed" ->
                [fs |-> e, raised |-> FALSE, profiles |-> <<>>]
          [] OTHER ->
                [fs |-> e, raised |-> TRUE, profiles |-> <<>>]

script_save_profiles(fs, profiles) ==
    [script_ensure_config_exists(fs) EXCEPT !.file = json_dump(profiles)]

script_create_profile(fs, profile_name) ==
    LET l == script_load_profiles(fs)
    IN  IF l.raised THEN Uncaught(l.fs)
        ELSE IF dict_has(l.profiles, profile_name)
        THEN Outcome(l.fs, FALSE, FALSE,
                 << <<"Profile '">> \o profile_name \o <<"' already exists">> >>,
                 <<>>, 0)
        ELSE Outcome(script_save_profiles(l.fs,
                         dict_setitem(l.profiles, profile_name, <<>>)),
                 FALSE, TRUE,
                 << <<"Created profile '">> \o profile_name \o <<"'">> >>,
                 <<>>, 0)

script_add_variable(fs, profile_name, key, value) ==
    LET l == script_load_profiles(fs)
    IN  IF l.raised THEN Uncaught(l.fs)
        ELSE IF ~dict_has(l.profiles, profile_name)
        THEN Outcome(l.fs, FALSE, FALSE,
                 << <<"Profile '">> \o profile_name \o <<"' does not exist">> >>,
                 <<>>, 0)
        ELSE Outcome(script_save_profiles(l.fs,
                         dict_setitem(l.profiles, profile_name,
                             dict_setitem(dict_getitem(l.profiles, profile_name),
                                          key, value))),
                 FALSE, TRUE,
                 << <<"Added/updated '">> \o key \o <<"=">> \o value
                    \o <<"' to profile '">> \o profile_name \o <<"'">> >>,
                 <<>>, 0)

script_remove_variable(fs, profile_name, key) ==
    LET l == script_load_profiles(fs)
    IN  IF l.raised THEN Uncaught(l.fs)
        ELSE IF ~dict_has(l.profiles, profile_name)
        THEN Outcome(l.fs, FALSE, FALSE,
                 << <<"Profile '">> \o profile_name \o <<"' does not exist">> >>,
                 <<>>, 0)
        ELSE IF ~dict_has(dict_getitem(l.profiles, profile_name), key)
        THEN Outcome(l.fs, FALSE, FALSE,
                 << <<"Key '">> \o key \o <<"' does not exist in profile '">>
                    \o profile_name \o <<"'">> >>,
                 <<>>, 0)
        ELSE Outcome(script_save_profiles(l.fs,
                         dict_setitem(l.profiles, profile_name,
                             dict_delitem(dict_getitem(l.profiles, profile_name),
                                          key))),
                 FALSE, TRUE,
                 << <<"Removed '">> \o key \o <<"' from profile '">>
                    \o profile_name \o <<"'">> >>,
                 <<>>, 0)

script_list_profiles(fs) ==
    LET l == script_load_profiles(fs)
        line(e) == <<"  - ">> \o e.k \o <<" (">> \o str(Len(e.v)) \o <<" variable">>
                   \o (IF Len(e.v) # 1 THEN <<"s">> ELSE <<>>) \o <<")">>
    IN  IF l.raised THEN Uncaught(l.fs)
        ELSE Outcome(l.fs, FALSE, FALSE,
                 IF l.profiles = <<>>
                 THEN << <<"No profiles available">> >>
                 ELSE << <<"Available profiles:">> >>
                      \o [i \in 1..Len(l.profiles) |-> line(l.profiles[i])],
                 <<>>, 0)

script_show_profile(fs, profile_name) ==
    LET l == script_load_profiles(fs)
        profile == dict_getitem(l.profiles, profile_name)
    IN  IF l.raised THEN Uncaught(l.fs)
        ELSE IF ~dict_has(l.profiles, profile_name)
        THEN Outcome(l.fs, FALSE, FALSE,
                 << <<"Profile '">> \o profile_name \o <<"' does not exist">> >>,
                 <<>>, 0)
        ELSE IF profile = <<>>
        THEN Outcome(l.fs, FALSE, FALSE,
                 << <<"Profile '">> \o profile_name \o <<"' is empty">> >>,
                 <<>>, 0)
        ELSE Outcome(l.fs, FALSE, FALSE,
                 << <<"Profile: ">> \o profile_name,
                    <<"Environment variables:">> >>
                 \o [i \in 1..Len(profile) |->
                       <<"  ">> \o profile[i].k \o <<"=">> \o profile[i].v],
                 <<>>, 0)

script_load_profile(fs, profile_name) ==
    LET l == script_load_profiles(fs)
        profile == dict_getitem(l.profiles, profile_name)
    IN  IF l.raised THEN Uncaught(l.fs)
        ELSE IF ~dict_has(l.profiles, profile_name)
        THEN Outcome(l.fs, FALSE, FALSE, <<>>,
                 << <<"# Profile '">> \o profile_name \o <<"' does not exist">> >>,
                 0)
        ELSE IF profile = <<>>
        THEN Outcome(l.fs, FALSE, FALSE, <<>>,
                 << <<"# Profile '">> \o profile_name \o <<"' is empty">> >>,
                 0)
        ELSE Outcome(l.fs, FALSE, FALSE,
                 [i \in 1..Len(profile) |->
                     <<"e", "x", "p", "o", "r", "t", " ">> \o profile[i].k
                     \o <<"=", "'">> \o escape_value(profile[i].v)
                     \o <<"'", ";">>],
                 <<>>, 0)

script_delete_profile(fs, profile_name) ==
    LET l == script_load_profiles(fs)
    IN  IF l.raised THEN Uncaught(l.fs)
        ELSE IF ~dict_has(l.profiles, profile_name)
        THEN Outcome(l.fs, FALSE, FALSE,
                 << <<"Profile '">> \o profile_name \o <<"' does not exist">> >>,
                 <<>>, 0)
        ELSE Outcome(script_save_profiles(l.fs,
                         dict_delitem(l.profiles, profile_name)),
                 FALSE, TRUE,
                 << <<"Deleted profile '">> \o profile_name \o <<"'">> >>,
                 <<>>, 0)

----------------------------------------------------------------------------
(* The state machine: one action per command, and the changes other        *)
(* programs make to the configuration directory.                           *)

FS == [dir |-> dir_exists, file |-> file]

Record(command, profile_name, key, value, pre, o) ==
    [cmd |-> command, name |-> profile_name, key |-> key, value |-> value,
     pre |-> pre, raised |-> o.raised, ret |-> o.ret, saved |-> o.saved,
     got |-> o.got, counts |-> o.counts, stdout |-> o.stdout,
     stderr |-> o.stderr, code |-> o.code]

(* No invocation is part-way through its command.                          *)
NoneInFlight == [inv |-> <<>>, writer |-> 0]

(* One run of main: o is the outcome of the command's handler.             *)
Invoke(command, profile_name, key, value, o) ==
    /\ dir_exists' = o.fs.dir
    /\ file' = o.fs.file
    /\ last' = Record(command, profile_name, key, value, FS, o)
    /\ UNCHANGED inflight

(* A fresh installation after ProfileManager() has run once.               *)
Init ==
    /\ dir_exists = TRUE
    /\ file = json_dump(<<>>)
    /\ last = Record("init", NoArg, NoArg, NoArg,
                     [dir |-> FALSE, file |-> NoFile],
                     Outcome([dir |-> TRUE, file |-> json_dump(<<>>)],
                             FALSE, FALSE, <<>>, <<>>, 0))
    /\ inflight = NoneInFlight

Create(n) ==
    /\ n \in Names
    /\ Invoke("create", n, NoArg, NoArg,
              create_profile_cmd(ProfileManager(FS), n))

Add(n, k, v) ==
    /\ n \in Names /\ k \in Keys /\ v \in Values
    /\ Invoke("add", n, k, v, add_variable_cmd(ProfileManager(FS), n, k, v))

Remove(n, k) ==
    /\ n \in Names /\ k \in Keys
    /\ Invoke("remove", n, k, NoArg,
              remove_variable_cmd(ProfileManager(FS), n, k))

List ==
    /\ TRUE
    /\ Invoke("list", NoArg, NoArg, NoArg, list_profiles_cmd(ProfileManager(FS)))

Show(n) ==
    /\ n \in Names
    /\ Invoke("show", n, NoArg, NoArg, show_profile_cmd(ProfileManager(FS), n))

Load(n) ==
    /\ n \in Names
    /\ Invoke("load", n, NoArg, NoArg, load_profile_cmd(ProfileManager(FS), n))

Delete(n) ==
    /\ n \in Names
    /\ Invoke("delete", n, NoArg, NoArg,
              delete_profile_cmd(ProfileManager(FS), n))

(* A caller of the manager stores what it has just loaded:                 *)
(* manager.save_profiles(manager.load_profiles()).                         *)
Resave ==
    /\ TRUE
    /\ Invoke("resave", NoArg, NoArg, NoArg,
              LET l == load_profiles(ProfileManager(FS))
              IN  IF l.raised THEN Uncaught(l.fs)
                  ELSE Outcome(save_profiles(l.fs, l.profiles),
                               FALSE, TRUE, <<>>, <<>>, 0))

(* Another program rewrites or removes the file, or removes the directory. *)
External ==
    /\ \E fs \in {[dir |-> TRUE, file |-> MalformedText],
                  [dir |-> TRUE, file |-> UndecodableBytes],
                  [dir |-> TRUE, file |-> NoFile],
                  [dir |-> FALSE, file |-> NoFile]} :
          /\ dir_exists' = fs.dir
          /\ file' = fs.file
          /\ last' = Record("external", NoArg, NoArg, NoArg, FS,
                            Outcome(fs, FALSE, FALSE, <<>>, <<>>, 0))
    /\ UNCHANGED inflight

Next ==
    \/ \E n \in Names : Create(n)
    \/ \E n \in Names, k \in Keys, v \in Values : Add(n, k, v)
    \/ \E n \in Names, k \in Keys : Remove(n, k)
    \/ List
    \/ \E n \in Names : Show(n)
    \/ \E n \in Names : Load(n)
    \/ \E n \in Names : Delete(n)
    \/ Resave
    \/ External

Spec == Init /\ [][Next]_vars

(* The load command over every value: the runs begin after                 *)
(* `create d` and `add d K <value>`, for each string of at most MaxValLen  *)
(* characters of QuoteChars.                                               *)
(* Runs of the standalone script: main calls args.func(args).              *)
ScriptCreate(n) ==
    /\ n \in Names
    /\ Invoke("create", n, NoArg, NoArg, script_create_profile(FS, n))

ScriptAdd(n, k, v) ==
    /\ n \in Names /\ k \in Keys /\ v \in Values
    /\ Invoke("add", n, k, v, script_add_variable(FS, n, k, v))

ScriptRemove(n, k) ==
    /\ n \in Names /\ k \in Keys
    /\ Invoke("remove", n, k, NoArg, script_remove_variable(FS, n, k))

ScriptList ==
    /\ TRUE
    /\ Invoke("list", NoArg, NoArg, NoArg, script_list_profiles(FS))

ScriptShow(n) ==
    /\ n \in Names
    /\ Invoke("show", n, NoArg, NoArg, script_show_profile(FS, n))

ScriptLoad(n) ==
    /\ n \in Names
    /\ Invoke("load", n, NoArg, NoArg, script_load_profile(FS, n))

ScriptDelete(n) ==
    /\ n \in Names
    /\ Invoke("delete", n, NoArg, NoArg, script_delete_profile(FS, n))

NextScript ==
    \/ \E n \in Names : ScriptCreate(n)
    \/ \E n \in Names, k \in Keys, v \in Values : ScriptAdd(n, k, v)
    \/ \E n \in Names, k \in Keys : ScriptRemove(n, k)
    \/ ScriptList
    \/ \E n \in Names : ScriptShow(n)
    \/ \E n \in Names : ScriptLoad(n)
    \/ \E n \in Names : ScriptDelete(n)
    \/ External

SpecScript == Init /\ [][NextScript]_vars

MaxValLen == 3
QuoteChars == {"a", "'", "\\", ";", "\""}
QuoteValues == UNION {[1..n -> QuoteChars] : n \in 0..MaxValLen}

InitQuote ==
    \E v \in QuoteValues :
        \E o \in {add_variable_cmd(
                      create_profile_cmd(
                          ProfileManager([dir |-> FALSE, file |-> NoFile]),
                          NameDev).fs,
                      NameDev, KeyPlain, v)} :
            /\ dir_exists = o.fs.dir
            /\ file = o.fs.file
            /\ last = Record("add", NameDev, KeyPlain, v,
                             create_profile_cmd(
                                 ProfileManager([dir |-> FALSE, file |-> NoFile]),
                                 NameDev).fs,
                             o)
            /\ inflight = NoneInFlight

NextQuote == \E n \in {NameDev} : Load(n)

SpecQuote == InitQuote /\ [][NextQuote]_vars

----------------------------------------------------------------------------
(* Two invocations at the same time on one store.  Nothing locks the file, *)
(* so the steps of one run between the steps of the other: the read of     *)
(* load_profiles; in save_profiles, open(config_file, "w"), which empties  *)
(* the file, and the write of json.dump's text when the file is closed;    *)
(* and, in remove_variable_cmd, the second load_profiles.                  *)

(* The length of the text json.dump(..., indent=2) writes for a profile's  *)
(* variables and for a store; keys and values are the escaped literals.    *)
RECURSIVE Sum(_)
Sum(ns) == IF ns = <<>> THEN 0 ELSE Head(ns) + Sum(Tail(ns))

object_size(variables) ==
    IF variables = <<>> THEN 2
    ELSE 1 + Sum([i \in 1..Len(variables) |->
                     5 + Len(variables[i].k) + 2 + Len(variables[i].v)])
           + (Len(variables) - 1) + 4

document_size(members) ==
    IF members = <<>> THEN 2
    ELSE 1 + Sum([i \in 1..Len(members) |->
                     3 + Len(members[i].k) + 2 + object_size(members[i].v)])
           + (Len(members) - 1) + 2

(* The length of the file.  The one content other than a store that a      *)
(* writer here can meet is the empty file an open(..., "w") has left.      *)
file_size(content) ==
    IF content.kind = "object" THEN document_size(content.members) ELSE 0

(* open(config_file, "w"): the file is there and empty, which json.load    *)
(* refuses with JSONDecodeError.                                           *)
open_w(content) == MalformedText

(* The write at close: the text goes over the file from offset 0.  A       *)
(* longer text that another writer put there meanwhile keeps its tail      *)
(* after the new text, and the whole is not JSON.                          *)
write_at_0(content, text) ==
    IF file_size(content) <= file_size(text) THEN text ELSE MalformedText

(* The store a load returns on a file.                                     *)
store_of(content) == load_profiles([dir |-> TRUE, file |-> content]).profiles

Procs == {1, 2}

RaceCommands ==
    {[cmd |-> "create", name |-> n, key |-> NoArg, value |-> NoArg] :
        n \in Names}
    \cup {[cmd |-> "add", name |-> n, key |-> k, value |-> v] :
            n \in Names, k \in Keys, v \in Values}
    \cup {[cmd |-> "remove", name |-> n, key |-> k, value |-> NoArg] :
            n \in Names, k \in Keys}
    \cup {[cmd |-> "delete", name |-> n, key |-> NoArg, value |-> NoArg] :
            n \in Names}

(* The store the two invocations start on: profile d with K=v.             *)
RaceStore ==
    add_variable(create_profile([dir |-> FALSE, file |-> NoFile], NameDev).fs,
                 NameDev, KeyPlain, ValuePlain).fs

Started(c) ==
    [pc |-> "load", cmd |-> c.cmd, name |-> c.name, key |-> c.key,
     value |-> c.value, snapshot |-> <<>>, views |-> {}, torn |-> FALSE,
     text |-> NoFile, before |-> NoFile, ret |-> FALSE, saved |-> FALSE,
     stdout |-> <<>>, code |-> 0]

InitRace ==
    /\ dir_exists = RaceStore.dir
    /\ file = RaceStore.file
    /\ last = Record("init", NoArg, NoArg, NoArg,
                     [dir |-> FALSE, file |-> NoFile],
                     Outcome(RaceStore, FALSE, FALSE, <<>>, <<>>, 0))
    /\ \E c1 \in RaceCommands, c2 \in RaceCommands :
          inflight = [inv |-> <<Started(c1), Started(c2)>>, writer |-> 0]

(* What a load that does not overlap a save half-way could return: the     *)
(* store before the save another invocation is in the middle of, or the    *)
(* store that save writes; the store in the file when no save is open.     *)
AtomicViews(p) ==
    IF \E q \in Procs \ {p} : inflight.inv[q].pc = "write"
    THEN UNION {{store_of(inflight.inv[q].before), store_of(inflight.inv[q].text)} :
                  q \in {r \in Procs \ {p} : inflight.inv[r].pc = "write"}}
    ELSE {store_of(file)}

(* The handler up to its save: load_profiles reads the file; o is the      *)
(* outcome of the handler on what it read, o.fs.file the text to save      *)
(* and o.stdout what it prints once the save is done.                      *)
Loaded(p, o) ==
    LET l == load_profiles(ProfileManager(FS))
        me == inflight.inv[p]
    IN  /\ inflight' = [inflight EXCEPT !.inv[p] =
              [me EXCEPT !.pc = IF o.saved THEN "open"
                                ELSE IF me.cmd = "remove" THEN "recheck"
                                ELSE "done",
                         !.snapshot = l.profiles,
                         !.views = AtomicViews(p),
                         !.torn = l.profiles \notin AtomicViews(p),
                         !.text = IF o.saved THEN o.fs.file ELSE NoFile,
                         !.ret = o.ret,
                         !.saved = o.saved,
                         !.stdout = o.stdout,
                         !.code = o.code]]
        /\ UNCHANGED <<dir_exists, file, last>>

RaceLoad(p) ==
    /\ inflight.inv[p].pc = "load"
    /\ LET me == inflight.inv[p]
       IN  \/ /\ me.cmd = "create"
              /\ Loaded(p, create_profile_cmd(ProfileManager(FS), me.name))
           \/ /\ me.cmd = "add"
              /\ Loaded(p, add_variable_cmd(ProfileManager(FS), me.name,
                                            me.key, me.value))
           \/ /\ me.cmd = "remove"
              /\ Loaded(p, remove_variable_cmd(ProfileManager(FS), me.name,
                                               me.key))
           \/ /\ me.cmd = "delete"
              /\ Loaded(p, delete_profile_cmd(ProfileManager(FS), me.name))

RaceOpen(p) ==
    /\ inflight.inv[p].pc = "open"
    /\ file' = open_w(file)
    /\ inflight' = [inflight EXCEPT !.inv[p].pc = "write",
                                    !.inv[p].before = file]
    /\ UNCHANGED <<dir_exists, last>>

RaceWrite(p) ==
    /\ inflight.inv[p].pc = "write"
    /\ file' = write_at_0(file, inflight.inv[p].text)
    /\ inflight' = [inflight EXCEPT !.inv[p].pc = "done", !.writer = p]
    /\ UNCHANGED <<dir_exists, last>>

(* remove_variable returned False: the handler loads the store again and   *)
(* chooses its message by what it finds there.                             *)
remove_variable_cmd_recheck(fs, profile_name, key) ==
    LET l == load_profiles(fs)
    IN  IF l.raised THEN Uncaught(l.fs)
        ELSE IF ~dict_has(l.profiles, profile_name)
        THEN Outcome(l.fs, FALSE, FALSE,
                 << <<"Profile '">> \o profile_name
                    \o <<"' does not exist">> >>,
                 <<>>, 1)
        ELSE Outcome(l.fs, FALSE, FALSE,
                 << <<"Key '">> \o key \o <<"' does not exist in profile '">>
                    \o profile_name \o <<"'">> >>,
                 <<>>, 1)

RaceRecheck(p) ==
    /\ inflight.inv[p].pc = "recheck"
    /\ LET me == inflight.inv[p]
           o == remove_variable_cmd_recheck(FS, me.name, me.key)
       IN  inflight' = [inflight EXCEPT !.inv[p] =
               [me EXCEPT !.pc = "done",
                          !.torn = @ \/ store_of(file) \notin AtomicViews(p),
                          !.stdout = o.stdout,
                          !.code = o.code]]
    /\ UNCHANGED <<dir_exists, file, last>>

NextRace ==
    \/ \E p \in Procs : RaceLoad(p)
    \/ \E p \in Procs : RaceOpen(p)
    \/ \E p \in Procs : RaceWrite(p)
    \/ \E p \in Procs : RaceRecheck(p)

SpecRace == InitRace /\ [][NextRace]_vars

----------------------------------------------------------------------------
(* What the claims speak of: the store the last invocation read and the    *)
(* store a load reads now.                                                 *)

PreLoad == load_profiles(last.pre)
Pre == PreLoad.profiles
NowLoad == load_profiles(FS)
Cur == NowLoad.profiles
PreVars == dict_getitem(Pre, last.name)
CurVars == dict_getitem(Cur, last.name)
Occurrences(d, k) == Cardinality({i \in 1..Len(d) : d[i].k = k})

(* C1: create_profile(P) on a store without P returns true and a load      *)
(* then shows P mapped to the empty mapping; on a store that holds P,      *)
(* whatever its variables, it returns false and the store and the file     *)
(* are unchanged.                                                          *)
C1Theorem ==
    (last.cmd = "create" /\ ~PreLoad.raised) =>
        IF ~dict_has(Pre, last.name)
        THEN /\ ~last.raised /\ last.ret
             /\ ~NowLoad.raised
             /\ dict_has(Cur, last.name)
             /\ CurVars = <<>>
        ELSE /\ ~last.raised /\ ~last.ret
             /\ Cur = Pre
             /\ file = last.pre.file

C1Witness ==
    /\ last.cmd = "create" /\ ~last.raised /\ ~last.ret
    /\ dict_has(Pre, last.name)
    /\ Len(PreVars) = 2
    /\ CurVars = PreVars

(* C2: add_variable(P,K,V) on a store holding P returns true, and          *)
(* get_profile(P)[K] is then V character for character; when K was set     *)
(* before, P keeps one entry for K and the number of its keys is the same. *)
C2Theorem ==
    (last.cmd = "add" /\ ~PreLoad.raised /\ dict_has(Pre, last.name)) =>
        /\ ~last.raised /\ last.ret
        /\ LET g == get_profile(FS, last.name)
           IN  /\ ~g.raised /\ ~g.got.none
               /\ dict_has(g.got.vars, last.key)
               /\ dict_getitem(g.got.vars, last.key) = last.value
               /\ Occurrences(g.got.vars, last.key) = 1
               /\ dict_has(PreVars, last.key)
                     => Len(g.got.vars) = Len(PreVars)

C2Witness ==
    /\ last.cmd = "add" /\ last.ret
    /\ dict_has(Pre, last.name)
    /\ dict_has(PreVars, last.key)
    /\ dict_getitem(PreVars, last.key) # last.value
    /\ last.value = ValueQuote
    /\ dict_getitem(CurVars, last.key) = ValueQuote

(* C3: remove_variable(P,K) returns false when P is absent or K is absent  *)
(* in P; otherwise it returns true, K is no longer a key of P and P is     *)
(* still a profile of the store.                                           *)
C3Theorem ==
    (last.cmd = "remove" /\ ~PreLoad.raised) =>
        IF ~dict_has(Pre, last.name) \/ ~dict_has(PreVars, last.key)
        THEN ~last.raised /\ ~last.ret
        ELSE /\ ~last.raised /\ last.ret
             /\ ~NowLoad.raised
             /\ dict_has(Cur, last.name)
             /\ ~dict_has(CurVars, last.key)

C3Witness ==
    /\ last.cmd = "remove" /\ last.ret
    /\ Len(PreVars) = 1
    /\ dict_has(Cur, last.name)
    /\ CurVars = <<>>

(* C4: delete_profile(P) returns false when P is absent; otherwise it      *)
(* returns true, get_profile(P) is then the not-found marker and           *)
(* list_profiles has no entry for P; and a create_profile(P) run next      *)
(* returns true and leaves P with the empty mapping.                       *)
C4Deleted ==
    (last.cmd = "delete" /\ ~PreLoad.raised) =>
        IF ~dict_has(Pre, last.name)
        THEN ~last.raised /\ ~last.ret
        ELSE /\ ~last.raised /\ last.ret
             /\ get_profile(FS, last.name).got = None
             /\ ~get_profile(FS, last.name).raised
             /\ ~dict_has(list_profiles(FS).counts, last.name)

C4Recreated ==
    (/\ last.cmd = "delete" /\ last.ret
     /\ last'.cmd = "create" /\ last'.name = last.name) =>
        /\ ~last'.raised /\ last'.ret
        /\ get_profile(FS', last.name).got = Some(<<>>)

(* Every command is enabled in every state, so C4Deleted is checked in    *)
(* every reachable state.                                                  *)
C4Theorem == [][C4Deleted /\ C4Recreated]_vars

C4Witness ==
    /\ last.cmd = "delete" /\ last.ret
    /\ Len(PreVars) = 2
    /\ Len(Pre) = 2
    /\ get_profile(FS, last.name).got = None

(* C5: create_profile, add_variable, remove_variable and delete_profile,   *)
(* when they return false, have not run save_profiles, and a store file    *)
(* that existed before the call has the same content after it.             *)
C5Theorem ==
    (/\ last.cmd \in {"create", "add", "remove", "delete"}
     /\ ~last.raised /\ ~last.ret) =>
        /\ ~last.saved
        /\ last.pre.file.kind # "missing" => file = last.pre.file

C5Witness ==
    /\ last.cmd = "add" /\ ~last.raised /\ ~last.ret
    /\ last.pre.file.kind = "object"
    /\ Len(Pre) = 1
    /\ file = last.pre.file

(* C6: get_profile(name) is the not-found marker exactly when name is not  *)
(* a key of the store and the profile's mapping otherwise; a profile with  *)
(* no variables gives the empty mapping, which is not the not-found        *)
(* marker, and show prints a different message for each.                   *)
C6Theorem ==
    /\ ~NowLoad.raised =>
          \A n \in Names :
              LET g == get_profile(FS, n)
              IN  /\ ~g.raised
                  /\ g.got.none <=> ~dict_has(Cur, n)
                  /\ ~g.got.none => g.got.vars = dict_getitem(Cur, n)
    /\ (last.cmd = "show" /\ ~last.raised) =>
          /\ last.got.none <=> ~dict_has(Pre, last.name)
          /\ last.got.none <=>
                (/\ last.code = 1
                 /\ last.stdout = << <<"Profile '">> \o last.name
                                     \o <<"' does not exist">> >>)
          /\ (~last.got.none /\ last.got.vars = <<>>) <=>
                (/\ last.code = 0
                 /\ last.stdout = << <<"Profile '">> \o last.name
                                     \o <<"' is empty">> >>)

C6Witness ==
    /\ last.cmd = "show" /\ ~last.raised
    /\ last.got = Some(<<>>)
    /\ \E n \in Names : get_profile(FS, n).got = None

(* C7: list_profiles() has one entry for each profile of the store and no  *)
(* other, each with the number of distinct keys of that profile; setting   *)
(* a key the profile already has keeps its count, a successful remove      *)
(* lowers it by one.                                                       *)
C7Theorem ==
    ~NowLoad.raised =>
        LET c == list_profiles(FS).counts
            before == list_profiles(last.pre).counts
        IN  /\ dict_keys(c) = dict_keys(Cur)
            /\ Len(c) = Cardinality(dict_keys(Cur))
            /\ \A i \in 1..Len(c) :
                  c[i].v = Cardinality(dict_keys(dict_getitem(Cur, c[i].k)))
            /\ (/\ last.cmd = "add" /\ last.ret
                /\ dict_has(PreVars, last.key)) =>
                  dict_getitem(c, last.name) = dict_getitem(before, last.name)
            /\ (last.cmd = "remove" /\ last.ret) =>
                  dict_getitem(c, last.name) + 1 = dict_getitem(before, last.name)

C7Witness ==
    /\ last.cmd = "add" /\ last.ret
    /\ dict_has(Pre, last.name)
    /\ dict_has(PreVars, last.key)
    /\ Len(Cur) = 2
    /\ \E n \in Names :
          /\ dict_has(list_profiles(FS).counts, n)
          /\ dict_getitem(list_profiles(FS).counts, n) = 0
    /\ dict_getitem(list_profiles(FS).counts, last.name) = 2

(* C8: with a store file that is not valid structured data (text that is   *)
(* not JSON, or bytes that are not text), every command ends as it does    *)
(* on a file holding {}: no uncaught exception, the same result, output    *)
(* and exit code; and the file keeps its content unless the command saves. *)
C8Claim ==
    (/\ last.cmd \in {"create", "add", "remove", "list", "show", "load", "delete"}
     /\ last.pre.file.kind \in {"malformed", "undecodable"}) =>
        LET e == main([dir |-> TRUE, file |-> json_dump(<<>>)],
                      last.cmd, last.name, last.key, last.value)
        IN  /\ ~last.raised
            /\ last.ret = e.ret /\ last.got = e.got /\ last.counts = e.counts
            /\ last.stdout = e.stdout /\ last.stderr = e.stderr
            /\ last.code = e.code
            /\ last.saved = e.saved
            /\ file = IF last.saved THEN e.fs.file ELSE last.pre.file

----------------------------------------------------------------------------
(* How a POSIX shell reads text: ; and newline end a command, blanks end   *)
(* a word, '...' is literal, \ outside quotes makes the next character     *)
(* literal.  [ok, cmds]: cmds are the commands, each a sequence of words   *)
(* after quote removal; ok is false for an unclosed quote and for the      *)
(* constructs left out here (double quotes).                               *)

sh_end_word(words, word, inword) == IF inword THEN Append(words, word) ELSE words

sh_end_command(cmds, words) == IF words = <<>> THEN cmds ELSE Append(cmds, words)

RECURSIVE sh_scan(_, _, _, _, _, _)
sh_scan(s, mode, word, inword, words, cmds) ==
    IF s = <<>>
    THEN [ok |-> mode = "plain",
          cmds |-> sh_end_command(cmds, sh_end_word(words, word, inword))]
    ELSE LET c == Head(s)
             rest == Tail(s)
         IN  CASE mode = "quoted" ->
                    IF c = "'"
                    THEN sh_scan(rest, "plain", word, TRUE, words, cmds)
                    ELSE sh_scan(rest, "quoted", Append(word, c), TRUE, words, cmds)
               [] mode = "escaped" ->
                    sh_scan(rest, "plain", Append(word, c), TRUE, words, cmds)
               [] OTHER ->
                    CASE c = "'" -> sh_scan(rest, "quoted", word, TRUE, words, cmds)
                      [] c = "\\" -> sh_scan(rest, "escaped", word, TRUE, words, cmds)
                      [] c = ";" \/ c = "\n" ->
                            sh_scan(rest, "plain", <<>>, FALSE, <<>>,
                                sh_end_command(cmds,
                                    sh_end_word(words, word, inword)))
                      [] c = " " ->
                            sh_scan(rest, "plain", <<>>, FALSE,
                                sh_end_word(words, word, inword), cmds)
                      [] c = "\"" -> [ok |-> FALSE, cmds |-> cmds]
                      [] OTHER ->
                            sh_scan(rest, "plain", Append(word, c), TRUE, words, cmds)

sh_parse(text) == sh_scan(text, "plain", <<>>, FALSE, <<>>, <<>>)

(* The text of printed lines: print ends each with a newline.              *)
RECURSIVE text_of(_)
text_of(lines) ==
    IF lines = <<>> THEN <<>>
    ELSE Head(lines) \o <<"\n">> \o text_of(Tail(lines))

ExportWord == <<"e", "x", "p", "o", "r", "t">>

(* The command `export NAME=VALUE` and nothing else.                       *)
sh_exports(cmd, name, value) ==
    /\ Len(cmd) = 2
    /\ cmd[1] = ExportWord
    /\ cmd[2] = name \o <<"=">> \o value
    /\ \A i \in 1..Len(name) : name[i] # "="

(* C9: the stdout of load, read by a POSIX shell, is one `export` of each  *)
(* variable of the profile to its value and no other command, whatever     *)
(* the keys and values.                                                    *)
C9Claim ==
    (last.cmd = "load" /\ ~last.raised /\ ~last.got.none) =>
        LET p == sh_parse(text_of(last.stdout))
            profile == last.got.vars
        IN  /\ p.ok
            /\ Len(p.cmds) = Len(profile)
            /\ \A i \in 1..Len(profile) :
                  sh_exports(p.cmds[i], profile[i].k, profile[i].v)

(* C10: load writes the value between single quotes with each ' written    *)
(* as '\'' and every other character as it is, and a POSIX shell reads     *)
(* the word back as the stored value.                                      *)
QuotesBefore(v, j) == Cardinality({i \in 1..(j - 1) : v[i] = "'"})

C10Theorem ==
    (last.cmd = "load" /\ ~last.raised /\ ~last.got.none) =>
        \A i \in 1..Len(last.got.vars) :
            LET k == last.got.vars[i].k
                v == last.got.vars[i].v
                line == last.stdout[i]
                open == Len(ExportWord) + 1 + Len(k) + 2
                body == SubSeq(line, open + 1, Len(line) - 2)
                at(j) == j + 3 * QuotesBefore(v, j)
            IN  /\ Len(last.stdout) = Len(last.got.vars)
                /\ SubSeq(line, 1, open) = ExportWord \o <<" ">> \o k \o <<"=", "'">>
                /\ SubSeq(line, Len(line) - 1, Len(line)) = <<"'", ";">>
                /\ Len(body) = Len(v) + 3 * QuotesBefore(v, Len(v) + 1)
                /\ \A j \in 1..Len(v) :
                      IF v[j] = "'"
                      THEN SubSeq(body, at(j), at(j) + 3) = <<"'", "\\", "'", "'">>
                      ELSE body[at(j)] = v[j]
                /\ sh_parse(line).ok
                /\ sh_parse(line).cmds = << <<ExportWord, k \o <<"=">> \o v>> >>

C10Witness ==
    /\ last.cmd = "load" /\ ~last.raised
    /\ last.got = Some(<< [k |-> KeyPlain, v |-> <<"'", "a", "'">>] >>)
    /\ last.stdout = << <<"e", "x", "p", "o", "r", "t", " ", "K", "=", "'",
                          "'", "\\", "'", "'", "a", "'", "\\", "'", "'",
                          "'", ";">> >>

----------------------------------------------------------------------------
(* body is v with each ' written as '\'' and every other character kept.   *)
EscapedAs(body, v) ==
    /\ Len(body) = Len(v) + 3 * QuotesBefore(v, Len(v) + 1)
    /\ \A j \in 1..Len(v) :
          LET at == j + 3 * QuotesBefore(v, j)
          IN  IF v[j] = "'"
              THEN SubSeq(body, at, at + 3) = <<"'", "\\", "'", "'">>
              ELSE body[at] = v[j]

(* C11: load writes on stdout one line `export <key>='<escaped value>';`   *)
(* for each variable of the profile, in the order the store file holds     *)
(* them, and nothing on stderr; for an absent profile and for an empty     *)
(* one it writes nothing on stdout and its `# Profile ...` line on stderr, *)
(* and exits with 1 when absent, 0 when empty.                             *)
C11Theorem ==
    (last.cmd = "load" /\ ~PreLoad.raised) =>
        /\ ~last.raised
        /\ IF ~dict_has(Pre, last.name)
           THEN /\ last.stdout = <<>>
                /\ last.stderr = << <<"# Profile '">> \o last.name
                                    \o <<"' does not exist">> >>
                /\ last.code = 1
           ELSE IF PreVars = <<>>
           THEN /\ last.stdout = <<>>
                /\ last.stderr = << <<"# Profile '">> \o last.name
                                    \o <<"' is empty">> >>
                /\ last.code = 0
           ELSE LET stored == last.pre.file.members[
                                  CHOOSE i \in 1..Len(last.pre.file.members) :
                                      json_decode_string(last.pre.file.members[i].k)
                                          = last.name].v
                IN  /\ Len(last.stdout) = Len(stored)
                    /\ \A i \in 1..Len(stored) :
                          LET k == json_decode_string(stored[i].k)
                              v == json_decode_string(stored[i].v)
                              line == last.stdout[i]
                              open == Len(ExportWord) + 1 + Len(k) + 2
                          IN  /\ SubSeq(line, 1, open)
                                    = ExportWord \o <<" ">> \o k \o <<"=", "'">>
                              /\ SubSeq(line, Len(line) - 1, Len(line)) = <<"'", ";">>
                              /\ EscapedAs(SubSeq(line, open + 1, Len(line) - 2), v)
                    /\ last.stderr = <<>>
                    /\ last.code = 0

C11Witness ==
    /\ last.cmd = "load" /\ ~last.raised
    /\ last.got = Some(<< [k |-> KeySemi, v |-> ValueQuote],
                          [k |-> KeyPlain, v |-> ValuePlain] >>)
    /\ Len(last.stdout) = 2
    /\ last.stdout[2] = export_line(KeyPlain, ValuePlain)
    /\ last.stderr = <<>>

(* C12: a command exits with 1 exactly when the profile it names is not    *)
(* in the store (show, add, remove, delete, load), the key it removes is   *)
(* not in the profile, or the profile it creates is in the store, and      *)
(* with 0 otherwise; show, add, remove and delete on a missing profile     *)
(* print `Profile '<name>' does not exist` on stdout.                      *)
LogicalFailure ==
    \/ /\ last.cmd \in {"show", "add", "remove", "delete", "load"}
       /\ ~dict_has(Pre, last.name)
    \/ /\ last.cmd = "remove"
       /\ dict_has(Pre, last.name)
       /\ ~dict_has(PreVars, last.key)
    \/ /\ last.cmd = "create"
       /\ dict_has(Pre, last.name)

C12Theorem ==
    (/\ last.cmd \in {"create", "add", "remove", "list", "show", "load", "delete"}
     /\ ~PreLoad.raised) =>
        /\ ~last.raised
        /\ last.code = IF LogicalFailure THEN 1 ELSE 0
        /\ (/\ last.cmd \in {"show", "add", "remove", "delete"}
            /\ ~dict_has(Pre, last.name)) =>
              last.stdout = << <<"Profile '">> \o last.name
                               \o <<"' does not exist">> >>

C12Witness ==
    /\ last.cmd = "delete" /\ ~last.raised
    /\ Len(Pre) = 1
    /\ ~dict_has(Pre, last.name)
    /\ last.code = 1

----------------------------------------------------------------------------
(* C13: on a store file that save wrote, storing what load returns leaves  *)
(* the file as it was (the same profiles and variables, in the same        *)
(* order, with the same values), and doing it once more changes nothing.   *)
C13Theorem ==
    (last.cmd = "resave" /\ last.pre.file.kind = "object") =>
        /\ ~last.raised
        /\ file = last.pre.file
        /\ Cur = Pre
        /\ save_profiles(FS, load_profiles(FS).profiles) = FS

C13Witness ==
    /\ last.cmd = "resave"
    /\ Len(last.pre.file.members) = 2
    /\ \E i \in 1..2 :
          /\ Len(last.pre.file.members[i].v) = 2
          /\ json_decode_string(last.pre.file.members[i].v[1].k) = KeySemi
          /\ json_decode_string(last.pre.file.members[i].v[1].v) = ValueQuote
    /\ file = last.pre.file

----------------------------------------------------------------------------
(* C14: from a state with no directory, with the directory and no file,    *)
(* and with both, ensure_config_exists ends without an error; afterwards   *)
(* the directory and the file exist, a file it made holds {}, a file that  *)
(* was there keeps its content; and a second call changes nothing.         *)
C14Theorem ==
    LET e == ensure_config_exists(FS)
    IN  /\ ~ensure_config_exists_raised(FS)
        /\ e.dir
        /\ e.file.kind # "missing"
        /\ file.kind = "missing" => e.file = [kind |-> "object", members |-> <<>>]
        /\ file.kind # "missing" => e.file = file
        /\ ~ensure_config_exists_raised(e)
        /\ ensure_config_exists(e) = e
        /\ last.cmd \in {"list", "show", "load"} =>
              /\ dir_exists
              /\ file = IF last.pre.file.kind = "missing"
                        THEN [kind |-> "object", members |-> <<>>]
                        ELSE last.pre.file

C14Witness ==
    /\ last.cmd = "list"
    /\ ~last.pre.dir
    /\ last.pre.file.kind = "missing"
    /\ dir_exists
    /\ file = [kind |-> "object", members |-> <<>>]
    /\ ~last.raised

----------------------------------------------------------------------------
(* C18: in a store file that the operations wrote, every profile name is   *)
(* held with a mapping of variables, which may be empty: get_profile       *)
(* returns that mapping, never None, and list_profiles counts it.          *)
(* Removing the last variable of a profile leaves the profile in the       *)
(* store with the empty mapping.                                           *)
C18Theorem ==
    /\ file.kind = "object" =>
          /\ ~NowLoad.raised
          /\ Len(Cur) = Len(file.members)
          /\ \A i \in 1..Len(file.members) :
                LET n == json_decode_string(file.members[i].k)
                    g == get_profile(FS, n)
                IN  /\ ~g.raised
                    /\ g.got # None
                    /\ ~g.got.none
                    /\ g.got.vars = json_load_object(file.members[i].v, <<>>)
                    /\ Len(g.got.vars) = Len(file.members[i].v)
                    /\ list_profiles(FS).counts[i]
                          = [k |-> n, v |-> Len(file.members[i].v)]
    /\ (/\ last.cmd = "remove" /\ last.ret
        /\ ~PreLoad.raised
        /\ Len(PreVars) = 1) =>
          /\ file.kind = "object"
          /\ dict_has(Cur, last.name)
          /\ CurVars = <<>>
          /\ Len(Cur) = Len(Pre)

C18Witness ==
    /\ last.cmd = "remove" /\ last.ret
    /\ Len(PreVars) = 1
    /\ Len(Cur) = 2
    /\ dict_has(Cur, last.name)
    /\ CurVars = <<>>

----------------------------------------------------------------------------
(* The entries of d under keys other than k, in their order.               *)
Without(d, k) == SelectSeq(d, LAMBDA e : e.k # k)

(* C19: create_profile(P) and delete_profile(P) leave every other          *)
(* profile, name and mapping, as it was; add_variable(P, K, V) and         *)
(* remove_variable(P, K) leave every other profile and every other key of  *)
(* P as it was; get_profile and list_profiles leave the store as it was.   *)
C19Theorem ==
    (/\ last.cmd \in {"create", "add", "remove", "list", "show", "load", "delete"}
     /\ ~PreLoad.raised) =>
        /\ ~NowLoad.raised
        /\ last.cmd \in {"create", "delete", "add", "remove"} =>
              Without(Cur, last.name) = Without(Pre, last.name)
        /\ (last.cmd \in {"add", "remove"} /\ dict_has(Pre, last.name)) =>
              /\ dict_has(Cur, last.name)
              /\ Without(CurVars, last.key) = Without(PreVars, last.key)
        /\ (last.cmd \in {"add", "remove"} /\ ~dict_has(Pre, last.name)) =>
              ~dict_has(Cur, last.name)
        /\ last.cmd \in {"list", "show", "load"} => Cur = Pre

C19Witness ==
    /\ last.cmd = "delete" /\ last.ret
    /\ Len(Pre) = 2
    /\ Pre[1].k = last.name
    /\ Len(Pre[2].v) = 2
    /\ Cur = << Pre[2] >>

----------------------------------------------------------------------------
(* C20: for each of the seven commands, with every argument and on every   *)
(* store, a run of the standalone script writes the same stdout and        *)
(* stderr, leaves the same directory and file, and exits with the same     *)
(* status as the packaged command line does from the same state.           *)
C20Claim ==
    last.cmd \in {"create", "add", "remove", "list", "show", "load", "delete"} =>
        LET c == main(last.pre, last.cmd, last.name, last.key, last.value)
        IN  /\ last.stdout = c.stdout
            /\ last.stderr = c.stderr
            /\ dir_exists = c.fs.dir
            /\ file = c.fs.file
            /\ last.code = c.code

----------------------------------------------------------------------------
AllDone ==
    /\ Len(inflight.inv) = 2
    /\ \A p \in Procs : inflight.inv[p].pc = "done"

(* The store an invocation read, with the change of its command applied.   *)
OwnChange(me) ==
    CASE me.cmd = "create" ->
            Append(me.snapshot, [k |-> me.name, v |-> <<>>])
      [] me.cmd = "add" ->
            dict_setitem(me.snapshot, me.name,
                dict_setitem(dict_getitem(me.snapshot, me.name), me.key, me.value))
      [] me.cmd = "remove" ->
            dict_setitem(me.snapshot, me.name,
                Without(dict_getitem(me.snapshot, me.name), me.key))
      [] me.cmd = "delete" ->
            Without(me.snapshot, me.name)

(* C15: when two invocations have run their load, change and save between  *)
(* one another's steps, the file holds the store that the invocation       *)
(* whose save ended last had loaded, with the change of that invocation    *)
(* alone: the last writer wins, and a change the other one saved is lost.  *)
C15Claim ==
    (AllDone /\ inflight.writer # 0) =>
        /\ file.kind = "object"
        /\ file = json_dump(OwnChange(inflight.inv[inflight.writer]))

(* C16: a load that runs while another invocation is inside its save       *)
(* returns the store from before that save or the store the save writes,   *)
(* nothing else; so what an invocation then saves still has the profiles   *)
(* of one of those two stores, but for the one it deletes.                 *)
C16Claim ==
    \A p \in 1..Len(inflight.inv) :
        LET me == inflight.inv[p]
        IN  me.pc # "load" =>
                /\ ~me.torn
                /\ me.snapshot \in me.views
                /\ me.saved =>
                      \E s \in me.views :
                          dict_keys(s) \ {me.name}
                              \subseteq dict_keys(store_of(me.text))

(* C17: a remove that fails prints `Profile '<name>' does not exist`       *)
(* exactly when the store that remove_variable read had no such profile,   *)
(* and `Key '<key>' does not exist in profile '<name>'` exactly when that  *)
(* store had the profile without the key, whatever another invocation      *)
(* does to the profile before the handler loads the store again.           *)
C17Claim ==
    \A p \in 1..Len(inflight.inv) :
        LET me == inflight.inv[p]
            no_profile == << <<"Profile '">> \o me.name
                             \o <<"' does not exist">> >>
            no_key == << <<"Key '">> \o me.key
                         \o <<"' does not exist in profile '">>
                         \o me.name \o <<"'">> >>
        IN  (me.pc = "done" /\ me.cmd = "remove" /\ ~me.ret) =>
                /\ me.stdout = no_profile <=> ~dict_has(me.snapshot, me.name)
                /\ me.stdout = no_key <=>
                      /\ dict_has(me.snapshot, me.name)
                      /\ ~dict_has(dict_getitem(me.snapshot, me.name), me.key)

====
